---- MODULE Spec2Model ----
(***************************************************************************)
(* A state-machine model of the persistence and sale-transaction layer of  *)
(* kkg_erp.py: the cached connection and DatabaseEngine.run, the master    *)
(* data cache, the POS terminal's "Add to Cart" and "Finalize Sale"        *)
(* handlers, and the Customers, Expenses, Dashboard and Ledger pages, run  *)
(* by several browser sessions whose script runs interleave at the         *)
(* granularity of single calls on the shared connection.                   *)
(***************************************************************************)
EXTENDS Integers, Sequences, FiniteSets, Bags, TLC

\* ------------------------------------------------------------------ bounds
MaxStock == 2
MaxQty == 2
MaxCart == 2
MaxClock == 1
MaxRuns == 4
MaxFaults == 1

\* ------------------------------------------------------- fixed small sets
Sessions == {"s1", "s2"}
Products == {"p1", "p2"}
Backends == {"POSTGRES", "SQLITE"}
PaidOptions == {200}
PaymentModes == {"Cash"}

\* st.session_state of a logged-in session: the keys render_login sets.
SessionState(s) ==
    IF s = "s1" THEN [logged_in |-> TRUE, user |-> "admin", role |-> "CEO"]
    ELSE [logged_in |-> TRUE, user |-> "staff", role |-> "Manager"]

\* st.session_state.get(key, default)
SessionGet(s, key, default) ==
    IF key \in DOMAIN SessionState(s) THEN SessionState(s)[key] ELSE default

\* The single registered customer the POS form's select box offers.
Customer == [phone |-> "9000000001", name |-> "C"]

\* Selling price of each product row (products.price, set at insert).
Price(p) == IF p = "p1" THEN 100 ELSE 50

\* str(datetime.date.today()) when time.time() is t: the day t falls in.
Date(t) == t \div 86400

NoEngine == [db_type |-> "NONE", conn |-> 0]
NoWrite == [op |-> "none"]
NoFin == [stmt |-> "none"]
NoUi == [kind |-> "none"]
NoPdf == [saved |-> FALSE]
NoCache == [valid |-> FALSE]

VARIABLES
    db,         \* [Backends -> [products, transactions, invoice_items,
                \*   audit_logs]]: the committed rows of each backend's tables
    conns,      \* Seq([type, status]): every connection object created
    cached,     \* index in conns of the st.cache_resource entry
    master,     \* the st.cache_data entry of get_master_data
    now,        \* int(time.time()) when it was last read
    pc,         \* [Sessions -> position of the session's script run]
    engine,     \* [Sessions -> the run's DatabaseEngine (db_type, conn)]
    cart,       \* [Sessions -> st.session_state.cart]
    fin,        \* [Sessions -> locals of the Finalize Sale handler]
    inflight,   \* [Sessions -> the write executed and not yet committed]
    ui,         \* [Sessions -> what the last run showed (st.error/success)]
    pdf,        \* [Sessions -> st.session_state.pdf (the tx_data it prints)]
    nruns,      \* script runs begun so far
    nfaults     \* faults so far: failed statements and severed connections

vars == <<db, conns, cached, master, now, pc, engine, cart, fin,
          inflight, ui, pdf, nruns, nfaults>>

\* ----------------------------------------------------------------- helpers
RECURSIVE SumSeq(_, _)
\* sum(f(row) for row in seq)
SumSeq(f(_), seq) ==
    IF seq = << >> THEN 0 ELSE f(Head(seq)) + SumSeq(f, Tail(seq))

LineQty(l) == l.qty
LineTotal(l) == l.total

\* sum(item['qty'] for item in st.session_state.cart if item['id'] == prod['id'])
InCart(c, prod_id) ==
    LET Same(l) == l.id = prod_id IN SumSeq(LineQty, SelectSeq(c, Same))

\* total = df['total'].sum()
CartTotal(c) == SumSeq(LineTotal, c)

\* ------------------------------------------------- tables and transactions
EmptyTables ==
    [products |-> << >>, customers |-> << >>, transactions |-> << >>,
     invoice_items |-> EmptyBag, expenses |-> EmptyBag,
     audit_logs |-> EmptyBag]

\* The effect of one executed statement w on the tables t of a backend.
ApplyWrite(t, w) ==
    CASE w.op = "hdr" ->
           [t EXCEPT !.transactions = (w.key :> w.row) @@ t.transactions]
      [] w.op = "item" ->
           [t EXCEPT !.invoice_items = t.invoice_items (+) SetToBag({w.row})]
      [] w.op = "stock" ->
           \* UPDATE products SET stock = stock - ? WHERE id = ?
           [t EXCEPT !.products =
               [p \in DOMAIN t.products |->
                   IF p = w.id
                   THEN [t.products[p] EXCEPT !.stock = t.products[p].stock - w.qty]
                   ELSE t.products[p]]]
      [] w.op = "log" ->
           [t EXCEPT !.audit_logs = t.audit_logs (+) SetToBag({w.row})]
      [] w.op = "cust" ->
           [t EXCEPT !.customers = (w.key :> w.row) @@ t.customers]
      [] w.op = "exp" ->
           [t EXCEPT !.expenses = t.expenses (+) SetToBag({w.row})]

RECURSIVE ApplyAll(_, _)
\* The tables t with the executed writes of the sessions in S applied.
ApplyAll(t, S) ==
    IF S = {} THEN t
    ELSE LET s == CHOOSE x \in S : TRUE
         IN  ApplyAll(ApplyWrite(t, inflight[s]), S \ {s})

\* The writes executed on connection c that its transaction still holds:
\* neither committed nor rolled back.
PendingOn(c) ==
    {s \in Sessions : /\ inflight[s].op # "none"
                      /\ inflight[s].state = "pending"
                      /\ inflight[s].conn = c}

\* What a statement executed on connection c reads: the committed rows and
\* the connection's own open transaction.
View(c) == ApplyAll(db[conns[c].type], PendingOn(c))

\* invoice_id TEXT PRIMARY KEY: the key is held by a committed row, or by a
\* row inserted in an open transaction of the same backend.
KeyTaken(b, key) ==
    \/ key \in DOMAIN db[b].transactions
    \/ \E s \in Sessions :
          /\ inflight[s].op = "hdr"
          /\ inflight[s].state = "pending"
          /\ conns[inflight[s].conn].type = b
          /\ conns[inflight[s].conn].status = "open"
          /\ inflight[s].key = key

\* get_db_connection on a cache miss: psycopg2.connect succeeds (t =
\* "POSTGRES") or raises and the local fallback is returned (t = "SQLITE").
NewConn(t) == [type |-> t, status |-> "open"]

\* --------------------------------------------- the Finalize Sale handler
\* inv_id = f"INV-{int(time.time())}"
InvoiceId(t) == <<"INV", t>>

\* The statement the handler is about to pass to db.run (or to
\* log_security_event, which passes it to db.run).
Statement(s) ==
    LET f == fin[s]
        l == cart[s][f.i]
    IN  CASE f.stmt = "hdr" ->
               [op |-> "hdr", key |-> f.inv_id,
                row |-> [customer_phone |-> Customer.phone,
                         date |-> Date(now), type |-> f.type,
                         total_amount |-> f.total, paid_amount |-> f.paid,
                         due_amount |-> f.due, payment_mode |-> f.mode,
                         created_by |-> SessionState(s).user]]
          [] f.stmt = "item" ->
               [op |-> "item",
                row |-> [invoice_id |-> f.inv_id, product_name |-> l.id,
                         quantity |-> l.qty, unit_price |-> l.price,
                         total_price |-> l.total]]
          [] f.stmt = "stock" ->
               [op |-> "stock", id |-> l.id, qty |-> l.qty]
          [] f.stmt = "log" ->
               [op |-> "log",
                row |-> [username |-> SessionGet(s, "username", "system"),
                         action |-> "SALE", details |-> f.inv_id]]

\* The statement order with each line's stock update before its item insert.
NextStmtStockFirst(f, n) ==
    CASE f.stmt = "hdr" -> [f EXCEPT !.stmt = "stock", !.i = 1]
      [] f.stmt = "stock" -> [f EXCEPT !.stmt = "item"]
      [] f.stmt = "item" ->
           IF f.i < n THEN [f EXCEPT !.stmt = "stock", !.i = f.i + 1]
           ELSE [f EXCEPT !.stmt = "log", !.i = 0]

\* The handler's next statement after the one at f: the header, then for each
\* cart line its invoice item and its stock update, then the audit log.
NextStmt(f, n) ==
    CASE f.stmt = "hdr" -> [f EXCEPT !.stmt = "item", !.i = 1]
      [] f.stmt = "item" -> [f EXCEPT !.stmt = "stock"]
      [] f.stmt = "stock" ->
           IF f.i < n THEN [f EXCEPT !.stmt = "item", !.i = f.i + 1]
           ELSE [f EXCEPT !.stmt = "log", !.i = 0]

\* db.run has returned ok (True/False) to the handler of session s, whose
\* engine is e. The handler ignores the value and goes on: to its next
\* statement, or after the audit log to building the PDF, emptying the cart
\* and force_system_refresh (st.cache_data.clear, st.rerun). History kept for
\* the properties: failed (some db.run returned False), collided (the header
\* insert was refused because its invoice id was taken).
AfterRun(s, ok, e) ==
    LET f == [fin[s] EXCEPT
                 !.failed = fin[s].failed \/ ~ok,
                 !.collided = fin[s].collided
                                \/ (/\ fin[s].stmt = "hdr"
                                    /\ ~ok
                                    /\ KeyTaken(e.db_type, fin[s].inv_id))]
    IN  IF f.stmt = "log"
           THEN /\ pdf' = [pdf EXCEPT ![s] =
                              [saved |-> TRUE, invoice_id |-> f.inv_id,
                               date |-> Date(now), type |-> f.type,
                               total_amount |-> f.total, paid_amount |-> f.paid,
                               due_amount |-> f.due]]
                /\ cart' = [cart EXCEPT ![s] = << >>]
                /\ master' = NoCache
                /\ pc' = [pc EXCEPT ![s] = "idle"]
                /\ fin' = [fin EXCEPT ![s] = NoFin]
                /\ engine' = [engine EXCEPT ![s] = NoEngine]
                /\ ui' = [ui EXCEPT ![s] =
                             [kind |-> "Finalized", inv_id |-> f.inv_id,
                              lines |-> cart[s], total |-> f.total,
                              paid |-> f.paid, due |-> f.due,
                              mode |-> f.mode, date |-> Date(now),
                              failed |-> f.failed, collided |-> f.collided,
                              seen |-> f.seen]]
           ELSE /\ fin' = [fin EXCEPT ![s] = NextStmt(f, Len(cart[s]))]
                /\ pc' = [pc EXCEPT ![s] = "exec"]
                /\ engine' = [engine EXCEPT ![s] = e]
                /\ UNCHANGED <<pdf, cart, master, ui>>

\* An exception leaves db.run: the script run of session s ends there, the
\* rest of its handler is not executed.
Raise(s) ==
    /\ pc' = [pc EXCEPT ![s] = "idle"]
    /\ fin' = [fin EXCEPT ![s] = NoFin]
    /\ engine' = [engine EXCEPT ![s] = NoEngine]
    /\ ui' = [ui EXCEPT ![s] = [kind |-> "Exception"]]
    /\ UNCHANGED <<pdf, cart, master>>

\* conn.rollback() on connection c: its open transaction is discarded.
Rollback(inf, c) ==
    [x \in Sessions |->
        IF inf[x].op # "none" /\ inf[x].state = "pending" /\ inf[x].conn = c
        THEN [inf[x] EXCEPT !.state = "lost"]
        ELSE inf[x]]

\* The except block of run, entered by session s with engine e, connections
\* cs and executed writes inf: on POSTGRES conn.rollback(), which raises on a
\* closed connection; then the degenerate value is returned.
Except(s, e, cs, inf) ==
    IF e.db_type = "POSTGRES"
    THEN IF cs[e.conn].status = "closed"
         THEN /\ inflight' = inf
              /\ Raise(s)
         ELSE /\ inflight' = Rollback(inf, e.conn)
              /\ AfterRun(s, FALSE, e)
    ELSE /\ inflight' = inf
         /\ AfterRun(s, FALSE, e)

\* The parameter marker of a backend's SQL dialect; run writes its queries
\* with '?' and replaces it by '%s' when its db_type is POSTGRES.
Placeholder(db_type) == IF db_type = "POSTGRES" THEN "%s" ELSE "?"

\* run, from its first line to the return of cur.execute, called by session
\* s: the placeholders are translated for the engine's db_type; _get_cursor
\* replaces a closed POSTGRES connection by what get_db_connection returns, a
\* connection of type t; the statement is executed, and raises if the
\* connection is severed, if its placeholders are not the backend's, if its
\* key is taken, or if the backend fails it (fault).
Execute(s, t, fault) ==
    LET e0 == engine[s]
        sent == Placeholder(e0.db_type)
        heal == e0.db_type = "POSTGRES" /\ conns[e0.conn].status = "closed"
        cs1 == IF heal THEN Append(conns, NewConn(t)) ELSE conns
        e1 == IF heal THEN [db_type |-> t, conn |-> Len(cs1)] ELSE e0
        c == cs1[e1.conn]
        w == Statement(s)
        lost == c.status = "dead"
        badsyntax == sent # Placeholder(c.type)
        dup == w.op = "hdr" /\ KeyTaken(c.type, w.key)
    IN  [engine |-> e1, write |-> w, backend |-> c.type,
         cached |-> IF heal THEN Len(cs1) ELSE cached,
         conns |-> IF lost THEN [cs1 EXCEPT ![e1.conn].status = "closed"]
                   ELSE cs1,
         raised |-> lost \/ badsyntax \/ dup \/ fault,
         spurious |-> fault /\ (lost \/ badsyntax \/ dup)]

\* The connection types _get_cursor may leave the engine of session s with.
CursorTypes(s) ==
    IF engine[s].db_type = "POSTGRES" /\ conns[engine[s].conn].status = "closed"
    THEN Backends ELSE {engine[s].db_type}

\* Whether the backend may fail one more statement.
FaultOptions == IF nfaults < MaxFaults THEN BOOLEAN ELSE {FALSE}

\* run as one step, for the behaviours in which no other call on the shared
\* connection falls between its cur.execute and its self.conn.commit().
Run(s) ==
    /\ pc[s] = "exec"
    /\ \E t \in CursorTypes(s), fault \in FaultOptions :
          LET x == Execute(s, t, fault)
          IN  /\ ~x.spurious
              /\ conns' = x.conns
              /\ cached' = x.cached
              /\ nfaults' = IF fault THEN nfaults + 1 ELSE nfaults
              /\ IF x.raised
                 THEN /\ Except(s, x.engine, x.conns, inflight)
                      /\ db' = db
                 ELSE /\ db' = [db EXCEPT ![x.backend] =
                                  ApplyAll(ApplyWrite(@, x.write),
                                           PendingOn(x.engine.conn))]
                      /\ inflight' =
                           [y \in Sessions |->
                              IF y \in PendingOn(x.engine.conn)
                              THEN [inflight[y] EXCEPT !.state = "done"]
                              ELSE inflight[y]]
                      /\ AfterRun(s, TRUE, x.engine)
    /\ UNCHANGED <<now, nruns>>

\* run, up to and including cur.execute.
Exec(s) ==
    /\ pc[s] = "exec"
    /\ \E t \in CursorTypes(s), fault \in FaultOptions :
          LET x == Execute(s, t, fault)
          IN  /\ ~x.spurious
              /\ conns' = x.conns
              /\ cached' = x.cached
              /\ nfaults' = IF fault THEN nfaults + 1 ELSE nfaults
              /\ IF x.raised
                 THEN Except(s, x.engine, x.conns, inflight)
                 ELSE /\ inflight' = [inflight EXCEPT ![s] =
                             x.write @@ [state |-> "pending",
                                         conn |-> x.engine.conn]]
                      /\ pc' = [pc EXCEPT ![s] = "commit"]
                      /\ engine' = [engine EXCEPT ![s] = x.engine]
                      /\ UNCHANGED <<fin, cart, pdf, master, ui>>
    /\ UNCHANGED <<db, now, nruns>>

\* run, from self.conn.commit() on: the connection's open transaction, with
\* every write executed on it by any session, becomes durable.
Commit(s) ==
    /\ pc[s] = "commit"
    /\ LET e == engine[s]
           c == conns[e.conn]
           mine == [inflight EXCEPT ![s] = NoWrite]
       IN  IF c.status # "open"
           THEN /\ conns' = [conns EXCEPT ![e.conn].status = "closed"]
                /\ Except(s, e, conns', mine)
                /\ db' = db
           ELSE /\ db' = [db EXCEPT ![c.type] = ApplyAll(@, PendingOn(e.conn))]
                /\ inflight' =
                     [y \in Sessions |->
                        IF y = s THEN NoWrite
                        ELSE IF y \in PendingOn(e.conn)
                             THEN [inflight[y] EXCEPT !.state = "done"]
                             ELSE inflight[y]]
                /\ conns' = conns
                /\ AfterRun(s, TRUE, e)
    /\ UNCHANGED <<cached, now, nruns, nfaults>>

\* ------------------------------------------------------- the script runs
\* SELECT * FROM products ORDER BY name and SELECT * FROM customers ORDER BY
\* name, as get_master_data caches them.
LoadMaster(t) ==
    [valid |-> TRUE, rows |-> t.products, custs |-> t.customers]

\* The start of a script run, up to the page's handlers: DatabaseEngine()
\* takes the cached connection, init_data_structure runs its CREATE TABLE IF
\* NOT EXISTS statements through db.run (a closed POSTGRES connection is
\* replaced by a connection of type t; each statement is committed), and the
\* POS page calls get_master_data. The values the run goes on with.
ScriptStart(t) ==
    LET c0 == conns[cached]
        heal == c0.type = "POSTGRES" /\ c0.status = "closed"
        cs1 == IF heal THEN Append(conns, NewConn(t)) ELSE conns
        cid == IF heal THEN Len(cs1) ELSE cached
        db1 == [db EXCEPT ![t] = ApplyAll(@, PendingOn(cid))]
    IN  [conns |-> cs1, cached |-> cid, db |-> db1,
         inflight |-> [x \in Sessions |->
                         IF x \in PendingOn(cid)
                         THEN [inflight[x] EXCEPT !.state = "done"]
                         ELSE inflight[x]],
         master |-> IF master.valid THEN master ELSE LoadMaster(db1[t]),
         engine |-> [db_type |-> t, conn |-> cid]]

\* The connection types a script run that starts now may go on with.
StartTypes ==
    IF conns[cached].type = "POSTGRES" /\ conns[cached].status = "closed"
    THEN Backends ELSE {conns[cached].type}

\* Session s begins a script run whose start does not raise; st is what the
\* start leaves of the connections. While a session is inside get_master_data
\* no other run starts: a run that needs the cached value waits for the load.
Started(s, st) ==
    /\ pc[s] = "idle"
    /\ nruns < MaxRuns
    /\ \A x \in Sessions : pc[x] # "load"
    /\ conns[cached].status # "dead"
    /\ nruns' = nruns + 1
    /\ conns' = st.conns
    /\ cached' = st.cached
    /\ inflight' = st.inflight

\* A script run of session s that writes no row after its start, on a page
\* that calls get_master_data.
Begin(s, st) ==
    /\ Started(s, st)
    /\ db' = st.db
    /\ master' = st.master

\* A script run of session s whose first statement finds the connection
\* severed: execute raises, the connection is closed, rollback raises.
CrashedRun(s) ==
    /\ pc[s] = "idle"
    /\ nruns < MaxRuns
    /\ conns[cached].status = "dead"
    /\ nruns' = nruns + 1
    /\ conns' = [conns EXCEPT ![cached].status = "closed"]
    /\ Raise(s)
    /\ UNCHANGED <<db, cached, inflight, now, nfaults>>

\* A script run of session s on the POS page that get_master_data gives no
\* products or no customers: the page warns and stops.
StoppedRun(s) ==
    \E t \in StartTypes :
       LET st == ScriptStart(t)
       IN  /\ Begin(s, st)
           /\ (st.master.rows = << >> \/ st.master.custs = << >>)
           /\ ui' = [ui EXCEPT ![s] = [kind |-> "InitRequired"]]
           /\ UNCHANGED <<pc, engine, cart, fin, pdf, now, nfaults>>

\* get_master_data on a cache miss, up to the return of its two SELECTs: a
\* script run of session s on the POS page finds no cached value and reads
\* the products and customers; the value is not yet in the cache.
ReadMaster(s) ==
    \E t \in StartTypes :
       LET st == ScriptStart(t)
       IN  /\ Started(s, st)
           /\ ~master.valid
           /\ db' = st.db
           /\ pc' = [pc EXCEPT ![s] = "load"]
           /\ fin' = [fin EXCEPT ![s] = [stmt |-> "load", loaded |-> st.master]]
           /\ engine' = [engine EXCEPT ![s] = st.engine]
           /\ UNCHANGED <<master, cart, ui, pdf, now, nfaults>>

\* get_master_data returns: st.cache_data stores the value read by session s
\* under the function's key, whatever the cache holds by now, and the page is
\* drawn from it.
StoreMaster(s) ==
    /\ pc[s] = "load"
    /\ master' = fin[s].loaded
    /\ pc' = [pc EXCEPT ![s] = "idle"]
    /\ fin' = [fin EXCEPT ![s] = NoFin]
    /\ engine' = [engine EXCEPT ![s] = NoEngine]
    /\ ui' = [ui EXCEPT ![s] = NoUi]
    /\ UNCHANGED <<db, conns, cached, now, cart, inflight, pdf, nruns, nfaults>>

\* The stock check with the quantity already in the cart left out.
StockExceededIgnoringCart(in_cart, qty, stock) == qty > stock

\* (in_cart + qty) > prod['stock']
StockExceeded(in_cart, qty, stock) == (in_cart + qty) > stock

\* the number st.error reports as available
Available(prod, in_cart) == prod.stock

\* The cart line with the unit price as its total.
CartLineUnitTotal(id, prod, qty) ==
    [id |-> id, price |-> prod.price, stock |-> prod.stock,
     qty |-> qty, total |-> prod.price]

\* {**prod, 'qty': qty, 'total': qty * prod['price']}
CartLine(id, prod, qty) ==
    [id |-> id, price |-> prod.price, stock |-> prod.stock,
     qty |-> qty, total |-> qty * prod.price]

\* A script run of session s in which the "Add to Cart" form is submitted
\* with product p and quantity qty.
AddLine(s, p, qty) ==
    \E t \in StartTypes :
       LET st == ScriptStart(t)
       IN  /\ Begin(s, st)
           /\ st.master.custs # << >>
           /\ p \in DOMAIN st.master.rows
           /\ LET prod == st.master.rows[p]
                  in_cart == InCart(cart[s], p)
              IN  IF StockExceeded(in_cart, qty, prod.stock)
                  THEN /\ ui' = [ui EXCEPT ![s] =
                                   [kind |-> "StockError", id |-> p,
                                    qty |-> qty, stock |-> prod.stock,
                                    available |-> Available(prod, in_cart)]]
                       /\ cart' = cart
                  ELSE /\ Len(cart[s]) < MaxCart
                       /\ ui' = [ui EXCEPT ![s] = [kind |-> "Added"]]
                       /\ cart' = [cart EXCEPT ![s] =
                                      Append(@, CartLine(p, prod, qty))]
           /\ UNCHANGED <<pc, engine, fin, pdf, now, nfaults>>

\* The balance with the amount received left out.
DueIgnoringPaid(total, paid) == total

\* due = total - paid
Due(total, paid) == total - paid

\* A script run of session s in which the checkout form is submitted
\* ("Finalize Sale") with the amount received and the payment mode: the
\* handler's locals are computed; its first statement, the header insert, is
\* next. dt is the number of whole seconds since time.time() was last read.
\* History kept for the properties: seen, the products rows persisted when the
\* handler starts.
BeginFinalize(s, paid, mode, dt) ==
    \E t \in StartTypes :
       LET st == ScriptStart(t)
           total == CartTotal(cart[s])
       IN  /\ Begin(s, st)
           /\ now + dt <= MaxClock
           /\ now' = now + dt
           /\ st.master.rows # << >>
           /\ st.master.custs # << >>
           /\ cart[s] # << >>
           /\ fin' = [fin EXCEPT ![s] =
                         [stmt |-> "hdr", i |-> 0, inv_id |-> InvoiceId(now'),
                          type |-> "SALE", total |-> total, paid |-> paid,
                          due |-> Due(total, paid), mode |-> mode,
                          failed |-> FALSE, collided |-> FALSE,
                          seen |-> st.db[st.engine.db_type].products]]
           /\ pc' = [pc EXCEPT ![s] = "exec"]
           /\ engine' = [engine EXCEPT ![s] = st.engine]
           /\ ui' = [ui EXCEPT ![s] = NoUi]
           /\ UNCHANGED <<cart, pdf, nfaults>>

\* ----------------------------------------------------- the customers page
Phones == {Customer.phone, "9000000002"}

\* A script run of session s in which the "Register Customer" form is
\* submitted with this phone number: if db.run returns True,
\* force_system_refresh (whose st.rerun ends the run before st.success);
\* otherwise st.error("Phone number already exists!"). History kept for the
\* properties: existed, whether the customers table held the phone number.
SaveCustomer(s, phone) ==
    \E t \in StartTypes, fault \in FaultOptions :
       LET st == ScriptStart(t)
           existed == phone \in DOMAIN st.db[t].customers
           w == [op |-> "cust", key |-> phone, row |-> [name |-> "N"]]
           ok == ~existed /\ ~fault
       IN  /\ Started(s, st)
           /\ ~(fault /\ existed)
           /\ nfaults' = IF fault THEN nfaults + 1 ELSE nfaults
           /\ IF ok
              THEN /\ db' = [st.db EXCEPT ![t] = ApplyWrite(@, w)]
                   /\ master' = NoCache
                   /\ ui' = [ui EXCEPT ![s] =
                                [kind |-> "Refreshed", phone |-> phone,
                                 existed |-> existed]]
              ELSE /\ db' = st.db
                   /\ master' = st.master
                   /\ ui' = [ui EXCEPT ![s] =
                                [kind |-> "PhoneExists", phone |-> phone,
                                 existed |-> existed]]
           /\ UNCHANGED <<pc, engine, cart, fin, pdf, now>>

\* ---------------------------------------------------------- the expenses
ExpenseAmounts == {30}

\* A script run of session s in which the "Record Expense" form is submitted:
\* the insert's result is ignored, then force_system_refresh.
RecordExpense(s, amt) ==
    \E t \in StartTypes, fault \in FaultOptions :
       LET st == ScriptStart(t)
           w == [op |-> "exp",
                 row |-> [date |-> Date(now), category |-> "Rent",
                          amount |-> amt, added_by |-> SessionState(s).user]]
       IN  /\ Started(s, st)
           /\ SessionState(s).role # "Manager"
           /\ nfaults' = IF fault THEN nfaults + 1 ELSE nfaults
           /\ db' = IF fault THEN st.db
                    ELSE [st.db EXCEPT ![t] = ApplyWrite(@, w)]
           /\ master' = NoCache
           /\ ui' = [ui EXCEPT ![s] = [kind |-> "Recorded"]]
           /\ UNCHANGED <<pc, engine, cart, fin, pdf, now>>

\* --------------------------------------------------------- the dashboard
\* A value of a result column: << >> is NULL (None), <<n>> the number n.
Null == << >>

RECURSIVE SumKeys(_, _, _)
\* the sum of f over the rows of the table T with a key in K
SumKeys(f(_), T, K) ==
    IF K = {} THEN 0
    ELSE LET k == CHOOSE x \in K : TRUE
         IN  f(T[k]) + SumKeys(f, T, K \ {k})

RECURSIVE SumBag(_, _, _)
\* the sum of f over the rows of the bag B that are in S
SumBag(f(_), B, S) ==
    IF S = {} THEN 0
    ELSE LET x == CHOOSE y \in S : TRUE
         IN  f(x) * B[x] + SumBag(f, B, S \ {x})

\* SUM(col): NULL over no rows
SqlSum(n, total) == IF n = 0 THEN Null ELSE <<total>>

\* The aggregate with COALESCE left out.
NoCoalesce(x, d) == x

\* COALESCE(x, d)
Coalesce(x, d) == IF x = Null THEN <<d>> ELSE x

\* run(..., fetch=True) of a one-row aggregate: the rows, [] if it failed.
Fetch(value, failed) == IF failed THEN << >> ELSE <<[v |-> value]>>

\* res[0]['v'] if res else 0
FirstOrZero(res) == IF res # << >> THEN res[1].v ELSE <<0>>

\* get_live_financials on the tables t, today being the day d; q is the
\* query that fails (0: none). The values are None or numbers; a difference
\* with None raises TypeError.
LiveFinancials(t, d, q) ==
    LET TotalAmount(r) == r.total_amount
        PaidAmount(r) == r.paid_amount
        Amount(r) == r.amount
        T == t.transactions
        today == {k \in DOMAIN T : T[k].date = d /\ T[k].type = "SALE"}
        sales == {k \in DOMAIN T : T[k].type = "SALE"}
        exps == {r \in DOMAIN t.expenses : r.date = d}
        sales_res == Fetch(Coalesce(SqlSum(Cardinality(today),
                              SumKeys(TotalAmount, T, today)), 0), q = 1)
        exp_res == Fetch(Coalesce(SqlSum(Cardinality(exps),
                              SumBag(Amount, t.expenses, exps)), 0), q = 2)
        debt_res_s == Fetch(Coalesce(SqlSum(Cardinality(sales),
                              SumKeys(TotalAmount, T, sales)), 0), q = 3)
        debt_res_p == Fetch(Coalesce(SqlSum(Cardinality(DOMAIN T),
                              SumKeys(PaidAmount, T, DOMAIN T)), 0), q = 4)
        revenue == FirstOrZero(sales_res)
        expenses == FirstOrZero(exp_res)
        total_sales == FirstOrZero(debt_res_s)
        total_paid == FirstOrZero(debt_res_p)
    IN  IF Null \in {revenue, expenses, total_sales, total_paid}
        THEN [raised |-> TRUE]
        ELSE [raised |-> FALSE, revenue |-> revenue[1],
              expenses |-> expenses[1],
              debt |-> total_sales[1] - total_paid[1],
              net_profit |-> revenue[1] - expenses[1]]

\* The queries of get_live_financials the backend may fail.
FailedQueries == IF nfaults < MaxFaults THEN 0..4 ELSE {0}

\* A script run of session s on the Dashboard page: the four figures of
\* get_live_financials are shown. History kept for the properties: db_type,
\* the backend read; q, the query that failed; run, the number of the run.
Dashboard(s) ==
    \E t \in StartTypes, q \in FailedQueries :
       LET st == ScriptStart(t)
           r == LiveFinancials(st.db[t], Date(now), q)
       IN  /\ Started(s, st)
           /\ SessionState(s).role # "Manager"
           /\ nfaults' = IF q # 0 THEN nfaults + 1 ELSE nfaults
           /\ db' = st.db
           /\ master' = master
           /\ ui' = [ui EXCEPT ![s] =
                        IF r.raised THEN [kind |-> "TypeError"]
                        ELSE [kind |-> "Dashboard", revenue |-> r.revenue,
                              expenses |-> r.expenses, debt |-> r.debt,
                              net_profit |-> r.net_profit, db_type |-> t,
                              q |-> q, run |-> nruns']]
           /\ UNCHANGED <<pc, engine, cart, fin, pdf, now>>

\* ------------------------------------------------------------- the ledger
NoRow == [type |-> "none"]

\* Ledger, "Load Statement" and "Generate Copy": the row of the statement
\* whose invoice_id is k, from the tables t.
FetchHeader(t, k) ==
    IF k \in DOMAIN t.transactions THEN t.transactions[k] ELSE NoRow

\* ------------------------------------------------------- the environment
\* The remote server or the network severs an open POSTGRES connection; the
\* client learns of it at its next call on the connection.
Drop(c) ==
    /\ nfaults < MaxFaults
    /\ conns[c].type = "POSTGRES"
    /\ conns[c].status = "open"
    /\ conns' = [conns EXCEPT ![c].status = "dead"]
    /\ nfaults' = nfaults + 1
    /\ UNCHANGED <<db, cached, master, now, pc, engine, cart, fin,
                   inflight, ui, pdf, nruns>>

\* ------------------------------------------------------ the specification
\* The tables of the backend in use hold the registered customer and the
\* products, all with one stock in 1..MaxStock (created is history: the
\* Initial Stock the row was inserted with); the other backend's tables exist
\* and are empty. The cached connection is open, every session is logged in
\* and idle, its cart empty.
Init ==
    /\ \E b \in Backends :
       \E st \in {[p \in Products |-> k] : k \in 1..MaxStock} :
          /\ db = [x \in Backends |->
                     IF x = b
                     THEN [EmptyTables EXCEPT
                             !.products =
                                [p \in Products |->
                                   [price |-> Price(p), stock |-> st[p],
                                    created |-> st[p]]],
                             !.customers =
                                Customer.phone :> [name |-> Customer.name]]
                     ELSE EmptyTables]
          /\ conns = <<NewConn(b)>>
    /\ cached = 1
    /\ master = NoCache
    /\ now = 0
    /\ pc = [s \in Sessions |-> "idle"]
    /\ engine = [s \in Sessions |-> NoEngine]
    /\ cart = [s \in Sessions |-> << >>]
    /\ fin = [s \in Sessions |-> NoFin]
    /\ inflight = [s \in Sessions |-> NoWrite]
    /\ ui = [s \in Sessions |-> NoUi]
    /\ pdf = [s \in Sessions |-> NoPdf]
    /\ nruns = 0
    /\ nfaults = 0

Next ==
    \/ \E s \in Sessions : CrashedRun(s)
    \/ \E s \in Sessions : StoppedRun(s)
    \/ \E s \in Sessions, p \in Products, qty \in 1..MaxQty : AddLine(s, p, qty)
    \/ \E s \in Sessions, paid \in PaidOptions, mode \in PaymentModes,
          dt \in 0..MaxClock : BeginFinalize(s, paid, mode, dt)
    \/ \E s \in Sessions : Run(s)
    \/ \E c \in 1..Len(conns) : Drop(c)
    \/ \E s \in Sessions, phone \in Phones : SaveCustomer(s, phone)
    \/ \E s \in Sessions, amt \in ExpenseAmounts : RecordExpense(s, amt)
    \/ \E s \in Sessions : Dashboard(s)

Spec == Init /\ [][Next]_vars

\* The same program with run as two steps, so that calls of other sessions on
\* the shared connection fall between a statement and its commit.
NextSplit ==
    \/ \E s \in Sessions : CrashedRun(s)
    \/ \E s \in Sessions : StoppedRun(s)
    \/ \E s \in Sessions, p \in Products, qty \in 1..MaxQty : AddLine(s, p, qty)
    \/ \E s \in Sessions, paid \in PaidOptions, mode \in PaymentModes,
          dt \in 0..MaxClock : BeginFinalize(s, paid, mode, dt)
    \/ \E s \in Sessions : Exec(s)
    \/ \E s \in Sessions : Commit(s)
    \/ \E c \in 1..Len(conns) : Drop(c)

SpecSplit == Init /\ [][NextSplit]_vars

\* The program of Spec with get_master_data as two steps, so that another
\* session's statements and cache clear fall between the load of the master
\* data and its storing in the cache.
NextLoad ==
    \/ Next
    \/ \E s \in Sessions : ReadMaster(s)
    \/ \E s \in Sessions : StoreMaster(s)

SpecLoad == Init /\ [][NextLoad]_vars

\* ----------------------------------------------------------------- claims
RECURSIVE SumRows(_, _, _)
\* SUM(f) over the rows of the bag B that are in S
SumRows(f(_), B, S) ==
    IF S = {} THEN 0
    ELSE LET x == CHOOSE y \in S : TRUE
         IN  f(x) * B[x] + SumRows(f, B, S \ {x})

RowTotalPrice(r) == r.total_price

\* SUM(total_price) over the invoice_items rows of backend b with invoice k
ItemsTotal(b, k) ==
    LET B == db[b].invoice_items
    IN  SumRows(RowTotalPrice, B, {r \in DOMAIN B : r.invoice_id = k})

\* The invoice ids of the Finalize Sale handlers in progress.
InProgress == {fin[s].inv_id : s \in {x \in Sessions : pc[x] # "idle"}}

\* Session s has finished a Finalize Sale, all of whose statements succeeded,
\* and the header it wrote is in the tables of backend b.
Committed(s, b) ==
    /\ ui[s].kind = "Finalized"
    /\ ~ui[s].failed
    /\ ui[s].inv_id \in DOMAIN db[b].transactions
    /\ db[b].transactions[ui[s].inv_id].created_by = SessionState(s).user

\* C1: every product's persisted stock is >= 0 in every reachable state.
C1_StockNonNegative ==
    \A b \in Backends : \A p \in DOMAIN db[b].products :
        db[b].products[p].stock >= 0

\* C2: two sessions whose carts each hold one unit of a product that had
\* stock 1 never both commit their sale.
C2_LastUnitSoldOnce ==
    \A b \in Backends, p \in Products :
        ~ \A s \in Sessions :
             /\ Committed(s, b)
             /\ Len(ui[s].lines) = 1
             /\ ui[s].lines[1].id = p
             /\ ui[s].lines[1].qty = 1
             /\ ui[s].lines[1].stock = 1

\* C3: every transactions row satisfies due_amount = total_amount -
\* paid_amount.
C3_DueIsTotalMinusPaid ==
    \A b \in Backends : \A k \in DOMAIN db[b].transactions :
        LET r == db[b].transactions[k]
        IN  r.due_amount = r.total_amount - r.paid_amount

\* C3 witness: a header row of a sale that was paid in part or in excess.
C3_Witness ==
    \E b \in Backends : \E k \in DOMAIN db[b].transactions :
        LET r == db[b].transactions[k]
        IN  r.paid_amount > 0 /\ r.due_amount # r.total_amount /\ r.due_amount # 0

\* C4: once a Finalize Sale has finished, the total_price of the
\* invoice_items rows with its invoice id sums to the total_amount of the
\* transactions row with that invoice id.
C4_ItemsSumToTotal ==
    \A s \in Sessions : \A b \in Backends :
        (/\ ui[s].kind = "Finalized"
         /\ ui[s].inv_id \in DOMAIN db[b].transactions
         /\ ui[s].inv_id \notin InProgress)
        => ItemsTotal(b, ui[s].inv_id)
              = db[b].transactions[ui[s].inv_id].total_amount

\* C5: a step that changes a session's cart other than by emptying it appends
\* exactly one line, of a product whose quantity in the cart plus the line's
\* quantity is at most the stock of the product record the run was given, and
\* reports success; a step that leaves the session with a stock error leaves
\* its cart as it was, and the quantity in the cart plus the requested
\* quantity exceeds the stock of the product record.
C5_AddLine ==
    [][\A s \in Sessions :
          /\ (cart'[s] # cart[s] /\ cart'[s] # << >>) =>
                LET l == cart'[s][Len(cart'[s])]
                IN  /\ cart'[s] = Append(cart[s], l)
                    /\ l.qty >= 1
                    /\ InCart(cart[s], l.id) + l.qty <= l.stock
                    /\ l.stock = master'.rows[l.id].stock
                    /\ ui'[s].kind = "Added"
          /\ ui'[s].kind = "StockError" =>
                /\ cart'[s] = cart[s]
                /\ InCart(cart[s], ui'[s].id) + ui'[s].qty > ui'[s].stock
                /\ ui'[s] # ui[s] =>
                      ui'[s].stock = master'.rows[ui'[s].id].stock
      ]_vars

\* C5 witness: a session was refused a quantity that the stock alone would
\* have allowed, because of what its cart already holds; the cart is kept.
C5_Witness ==
    \E s \in Sessions :
        /\ ui[s].kind = "StockError"
        /\ ui[s].qty <= ui[s].stock
        /\ InCart(cart[s], ui[s].id) >= 1

\* C6: the available quantity a stock error reports is the product's stock
\* minus the quantity of the product already in the cart.
C6_AvailableReported ==
    \A s \in Sessions :
        ui[s].kind = "StockError" =>
            ui[s].available = ui[s].stock - InCart(cart[s], ui[s].id)

\* C7: no call of run raises to its caller: no script run ends with an
\* exception that left db.run.
C7_RunNeverRaises ==
    \A s \in Sessions : ui[s].kind # "Exception"

\* C8: after a Finalize Sale in which some write failed has finished, no
\* record of that sale remains: no header and no invoice item with its id.
C8_FailedSaleLeavesNothing ==
    \A s \in Sessions :
        (/\ ui[s].kind = "Finalized"
         /\ ui[s].failed
         /\ \A x \in Sessions \ {s} :
               /\ pc[x] # "idle" => fin[x].inv_id # ui[s].inv_id
               /\ ui[x].kind = "Finalized" => ui[x].inv_id # ui[s].inv_id)
        => \A b \in Backends :
              /\ ui[s].inv_id \notin DOMAIN db[b].transactions
              /\ ItemsTotal(b, ui[s].inv_id) = 0

\* C9: after a Finalize Sale in which some write failed, the session's cart
\* still holds the lines it held when the sale was finalized.
C9_CartKeptOnFailure ==
    \A s \in Sessions :
        (ui[s].kind = "Finalized" /\ ui[s].failed) => cart[s] = ui[s].lines

\* C10: two Finalize Sale presses, in progress or finished, of different
\* sessions or of the same session, never have the same invoice id.
C10_InvoiceIdsDistinct ==
    LET Id(s) == IF pc[s] # "idle" THEN {fin[s].inv_id}
                 ELSE IF ui[s].kind = "Finalized" THEN {ui[s].inv_id} ELSE {}
    IN  /\ \A s, x \in Sessions : s # x => Id(s) \cap Id(x) = {}
        /\ \A s \in Sessions :
              (pc[s] # "idle" /\ pdf[s].saved) =>
                  pdf[s].invoice_id # fin[s].inv_id

\* C11: after a Finalize Sale that reported the transaction as saved, the
\* transactions row fetched by its invoice id holds the header fields the
\* handler wrote: customer, date, type, total, paid, due, payment mode and
\* creator.
C11_SavedHeaderRoundTrip ==
    \A s \in Sessions :
        (ui[s].kind = "Finalized" /\ pdf[s].saved
            /\ pdf[s].invoice_id = ui[s].inv_id)
        => \E b \in Backends :
              FetchHeader(db[b], ui[s].inv_id)
                 = [customer_phone |-> Customer.phone, date |-> ui[s].date,
                    type |-> "SALE", total_amount |-> ui[s].total,
                    paid_amount |-> ui[s].paid, due_amount |-> ui[s].due,
                    payment_mode |-> ui[s].mode,
                    created_by |-> SessionState(s).user]

\* The cart lines c ask, for some product, for more than the stock of the
\* products rows prods.
Exceeds(c, prods) ==
    \E i \in 1..Len(c) :
        /\ c[i].id \in DOMAIN prods
        /\ InCart(c, c[i].id) > prods[c[i].id].stock

\* C12: a Finalize Sale of a cart whose quantity for some product exceeds the
\* stock persisted when the handler starts persists nothing: when it has
\* finished there is no transactions row and no invoice_items row with its
\* invoice id (invoice ids shared with another session's sale set aside).
C12_FinalizeValidates ==
    \A s \in Sessions :
        (/\ ui[s].kind = "Finalized"
         /\ Exceeds(ui[s].lines, ui[s].seen)
         /\ \A x \in Sessions \ {s} :
               /\ pc[x] # "idle" => fin[x].inv_id # ui[s].inv_id
               /\ ui[x].kind = "Finalized" => ui[x].inv_id # ui[s].inv_id)
        => \A b \in Backends :
              /\ ui[s].inv_id \notin DOMAIN db[b].transactions
              /\ ItemsTotal(b, ui[s].inv_id) = 0

\* C13: a call of run by a handler whose POSTGRES connection handle is closed
\* re-establishes the connection and its statement does not fail (unless its
\* invoice id is taken): the handler's failed flag stays as it was, and the
\* cached connection is open afterwards.
C13_ReconnectBeforeExecute ==
    [][\A s \in Sessions :
          (/\ pc[s] = "exec"
           /\ engine[s].db_type = "POSTGRES"
           /\ conns[engine[s].conn].status = "closed"
           /\ (fin'[s] # fin[s] \/ pc'[s] # pc[s]))
          => /\ conns'[cached'].status = "open"
             /\ pc'[s] # "idle" =>
                   (fin'[s].failed => (fin[s].failed \/ fin'[s].collided))
             /\ pc'[s] = "idle" =>
                   /\ ui'[s].kind = "Finalized"
                   /\ ui'[s].failed => (fin[s].failed \/ ui'[s].collided)
      ]_vars

\* C14: "Phone number already exists!" is shown only for a phone number the
\* customers table held, a phone number the table held is never registered
\* again, and a Finalize Sale whose header insert was refused because its
\* invoice id was taken does not end as a saved transaction.
C14_RejectionsAreExplicit ==
    \A s \in Sessions :
        /\ ui[s].kind = "PhoneExists" => ui[s].existed
        /\ ui[s].kind = "Refreshed" => ~ui[s].existed
        /\ (ui[s].kind = "Finalized" /\ pdf[s].saved
               /\ pdf[s].invoice_id = ui[s].inv_id) => ~ui[s].collided

RowOne(r) == 1

\* COUNT(*) over the invoice_items rows of backend b with invoice k
ItemsCount(b, k) ==
    LET B == db[b].invoice_items
    IN  SumRows(RowOne, B, {r \in DOMAIN B : r.invoice_id = k})

\* sum over the cart lines c of quantity x unit price
LinesValue(c) ==
    LET V(l) == l.qty * l.price IN SumSeq(V, c)

C16_EnsureSchemaIdempotent ==
    [][nruns' = nruns + 1 =>
          /\ \A s \in Sessions :
                ui'[s].kind = "Exception" => ui[s].kind = "Exception"
          /\ \A b \in Backends :
                /\ DOMAIN db'[b] = DOMAIN db[b]
                /\ db'[b].products = db[b].products
                /\ \A k \in DOMAIN db[b].customers :
                      /\ k \in DOMAIN db'[b].customers
                      /\ db'[b].customers[k] = db[b].customers[k]
                /\ \A k \in DOMAIN db[b].transactions :
                      /\ k \in DOMAIN db'[b].transactions
                      /\ db'[b].transactions[k] = db[b].transactions[k]
                /\ db[b].invoice_items \sqsubseteq db'[b].invoice_items
                /\ db[b].expenses \sqsubseteq db'[b].expenses
                /\ db[b].audit_logs \sqsubseteq db'[b].audit_logs
      ]_vars

\* C17: a session that can press Finalize with its cart can finalize it as a
\* RETURN: some finalize of the cart it may begin records type RETURN.
C17_ReturnCanBeFinalized ==
    \A s \in Sessions :
        (ENABLED (\E paid \in PaidOptions, mode \in PaymentModes,
                    dt \in 0..MaxClock : BeginFinalize(s, paid, mode, dt)))
        => ENABLED (\E paid \in PaidOptions, mode \in PaymentModes,
                      dt \in 0..MaxClock :
                         /\ BeginFinalize(s, paid, mode, dt)
                         /\ fin'[s].type = "RETURN")

\* SUM(due_amount) over the transactions rows of the tables t
SumDue(t) ==
    LET DueAmount(r) == r.due_amount
    IN  SumKeys(DueAmount, t.transactions, DOMAIN t.transactions)

\* C18: the receivables figure a Dashboard run shows is the sum of due_amount
\* over the transactions rows persisted in the backend it read.
C18_ReceivablesAreSumOfDue ==
    [][\A s \in Sessions :
          (ui'[s].kind = "Dashboard" /\ ui'[s] # ui[s])
          => ui'[s].debt = SumDue(db'[ui'[s].db_type])
      ]_vars

\* C19: a Dashboard run never meets a missing value (no TypeError); the
\* figures it shows are numbers; revenue and receivables are 0 when the
\* transactions table has no row and expenses are 0 when the expenses table
\* has none; and the run writes to no table.
C19_ZeroForNoRows ==
    [][\A s \in Sessions :
          /\ ui'[s].kind # "TypeError"
          /\ (ui'[s].kind = "Dashboard" /\ ui'[s] # ui[s]) =>
                LET r == ui'[s]
                    t == db'[r.db_type]
                IN  /\ {r.revenue, r.expenses, r.debt, r.net_profit} \subseteq Int
                    /\ r.net_profit = r.revenue - r.expenses
                    /\ t.transactions = << >> => (r.revenue = 0 /\ r.debt = 0)
                    /\ t.expenses = EmptyBag => r.expenses = 0
                    /\ db' = db
      ]_vars

\* C19 witness: a Dashboard run, none of whose queries failed, has shown 0 for
\* revenue, expenses and receivables over tables with no transactions and no
\* expenses row.
C19_Witness ==
    \E s \in Sessions :
        /\ ui[s].kind = "Dashboard"
        /\ ui[s].q = 0
        /\ db[ui[s].db_type].transactions = << >>
        /\ db[ui[s].db_type].expenses = EmptyBag
        /\ ui[s].revenue = 0 /\ ui[s].expenses = 0 /\ ui[s].debt = 0

\* C20: the statements of one Finalize Sale are issued in this order: the
\* header insert; then for each cart line, in cart order, its invoice item
\* insert and then its stock update; then the audit log insert, after which
\* the handler ends (or the handler ends early by an exception). A statement
\* is executed only when the handler is not inside another call of run, and
\* it is the statement of the handler's position.
C20_WriteOrder ==
    [][\A s \in Sessions :
          /\ fin'[s] # fin[s] =>
                LET f == fin[s]
                    g == fin'[s]
                    n == Len(cart[s])
                IN  \/ f.stmt = "none" /\ g.stmt = "hdr"
                    \/ f.stmt = "hdr" /\ g.stmt = "item" /\ g.i = 1
                    \/ f.stmt = "item" /\ g.stmt = "stock" /\ g.i = f.i
                    \/ /\ f.stmt = "stock" /\ f.i < n
                       /\ g.stmt = "item" /\ g.i = f.i + 1
                    \/ f.stmt = "stock" /\ f.i = n /\ g.stmt = "log"
                    \/ /\ f.stmt = "log" /\ g.stmt = "none"
                       /\ ui'[s].kind = "Finalized"
                    \/ g.stmt = "none" /\ ui'[s].kind = "Exception"
          /\ (/\ inflight'[s].op # "none"
              /\ inflight'[s].state = "pending"
              /\ ~(inflight[s].op # "none" /\ inflight[s].state = "pending")) =>
                LET w == inflight'[s]
                    l == cart[s][fin[s].i]
                IN  /\ pc[s] = "exec"
                    /\ w.op = fin[s].stmt
                    /\ w.op = "hdr" => w.key = fin[s].inv_id
                    /\ w.op = "item" =>
                          /\ w.row.invoice_id = fin[s].inv_id
                          /\ w.row.product_name = l.id
                          /\ w.row.quantity = l.qty
                    /\ w.op = "stock" => (w.id = l.id /\ w.qty = l.qty)
      ]_vars

\* C20 witness: the invoice item of a finalize's second cart line has been
\* executed, after the header and the first line's item and stock update.
C20_Witness ==
    \E s \in Sessions :
        /\ pc[s] = "commit"
        /\ fin[s].stmt = "item"
        /\ fin[s].i = 2
        /\ inflight[s].op = "item"
        /\ inflight[s].row.product_name = cart[s][2].id

\* C21: every committed sale has an audit_logs row with action SALE whose
\* details name the sale's invoice id and whose username is the logged-in
\* user who finalized it, the user stored as created_by on the header. Stated
\* for the sales all of whose statements succeeded.
C21_SaleAuditNamesActor ==
    \A s \in Sessions : \A b \in Backends :
        Committed(s, b) =>
            \E r \in DOMAIN db[b].audit_logs :
                /\ r.action = "SALE"
                /\ r.details = ui[s].inv_id
                /\ r.username = db[b].transactions[ui[s].inv_id].created_by

\* The call of run that session s is in returns True to a handler none of
\* whose earlier calls returned False.
ReturnsTrue(s) ==
    /\ pc[s] = "commit"
    /\ pc'[s] # "commit"
    /\ ~fin[s].failed
    /\ IF fin[s].stmt = "log"
       THEN ui'[s].kind = "Finalized" /\ ~ui'[s].failed
       ELSE fin'[s].stmt # "none" /\ ~fin'[s].failed

\* C22: a write that run reports as successful (returns True) is durably
\* committed: with the sessions sharing the one cached connection, a rollback
\* triggered by another session's failing statement never discards a write
\* whose own call of run goes on to return True.
C22_ReportedWritesAreDurable ==
    [][\A s \in Sessions :
          ReturnsTrue(s) =>
             LET w == inflight[s]
                 t == db'[conns[w.conn].type]
             IN  /\ w.state # "lost"
                 /\ w.op = "hdr" => w.key \in DOMAIN t.transactions
                 /\ w.op = "item" => w.row \in DOMAIN t.invoice_items
                 /\ w.op = "log" => w.row \in DOMAIN t.audit_logs
      ]_vars

\* C23: every statement that run sends to a backend uses the placeholder
\* syntax of the backend it is executed on ('?' on SQLITE, '%s' on POSTGRES),
\* also when the reconnect inside _get_cursor changes the backend during
\* that call.
C23_PlaceholdersMatchBackend ==
    [][\A s \in Sessions :
          (pc[s] = "exec" /\ fin'[s] # fin[s]) =>
             LET e == engine[s]
                 reconnect == /\ e.db_type = "POSTGRES"
                              /\ conns[e.conn].status = "closed"
                 backend == IF reconnect THEN conns'[Len(conns')].type
                            ELSE conns[e.conn].type
             IN  Placeholder(e.db_type) = Placeholder(backend)
      ]_vars

RowQuantity(r) == r.quantity

\* SUM(quantity) over the invoice_items rows of backend b that record sales
\* of product p
SoldQuantity(b, p) ==
    LET B == db[b].invoice_items
    IN  SumRows(RowQuantity, B, {r \in DOMAIN B : r.product_name = p})

\* C24: stock conservation: in every state in which no finalize is in
\* progress, for each product, the persisted stock plus the sum of quantity
\* over the persisted invoice_items rows of that product equals the stock
\* the product was created with.
C24_StockConservation ==
    (\A s \in Sessions : pc[s] = "idle") =>
        \A b \in Backends : \A p \in DOMAIN db[b].products :
            db[b].products[p].stock + SoldQuantity(b, p)
                = db[b].products[p].created

====
